---- MODULE Spec2Model ----
(***************************************************************************)
(* State-machine model of src/commands/events.rs: the `event` command      *)
(* (create a scheduled event, announce it, seed reactions, open a thread), *)
(* the `export_events` command (ICS export of the guild's scheduled        *)
(* events) and the date parser parse_start_and_end_date.                   *)
(*                                                                         *)
(* Instants are whole seconds since 1970-01-01T00:00:00Z.  Strings are     *)
(* TLA+ strings; a character is a string of length one.                    *)
(***************************************************************************)
EXTENDS Integers, Sequences, FiniteSets, TLC

VARIABLES
    pc,          \* position of the running command, "idle" when none runs
    args,        \* arguments of the running (or last) command
    start_date,  \* event: local `start_date` (line 85)
    end_date,    \* event: local `end_date` (line 85)
    event,       \* event: local `event`, the created scheduled event (line 87)
    announcement,\* event: local `announcement` (line 95)
    msg,         \* event: local `msg`, the announcement message (line 109)
    thread,      \* event: local `thread` (line 113)
    calls,       \* platform calls issued by the running (or last) command, in order
    result,      \* outcome of the running (or last) command
    scheduled,   \* platform: the guild's scheduled events, in listing order
    config,      \* ctx.data().event_channel_per_guild.get(&guild_id)
    events,      \* export_events: local `events`, the listing returned (line 25)
    cursor,      \* export_events: how many of `events` the loop has visited (line 31)
    calendar,    \* export_events: local `calendar`, its entries in order (line 30)
    attachment,  \* export_events: local `bytes`, the lines of calendar.ics (line 59)
    invocations  \* number of commands invoked so far

vars == <<pc, args, start_date, end_date, event, announcement, msg, thread, calls,
          result, scheduled, config, events, cursor, calendar, attachment,
          invocations>>

(***************************************************************************)
(* Bounds of the model.                                                    *)
(***************************************************************************)
\* commands invoked in one behaviour
MaxInvocations == 2

(***************************************************************************)
(* Civil calendar arithmetic (proleptic Gregorian), as chrono computes it. *)
(* A value that is used more than once is passed on as a parameter.        *)
(***************************************************************************)
IsLeapYear(y) == (y % 4 = 0 /\ y % 100 # 0) \/ y % 400 = 0

DaysInMonth(y, m) ==
    IF m \in {4, 6, 9, 11} THEN 30
    ELSE IF m = 2 THEN (IF IsLeapYear(y) THEN 29 ELSE 28)
    ELSE 31

\* days from 0000-03-01 to day d of month m in the year that starts in March
\* of civil year yy
DaysFromMarchYear(yy, era, m, d) ==
    era * 146097 + (yy - era * 400) * 365 + (yy - era * 400) \div 4
        - (yy - era * 400) \div 100
        + (153 * (IF m > 2 THEN m - 3 ELSE m + 9) + 2) \div 5 + d - 1

ShiftedYear(y, m) == IF m <= 2 THEN y - 1 ELSE y

\* days from 1970-01-01 to the civil date y-m-d
DaysFromCivil(y, m, d) ==
    DaysFromMarchYear(ShiftedYear(y, m), ShiftedYear(y, m) \div 400, m, d) - 719468

CivilOfMonth(y0, doy, mp, m) ==
    [year  |-> y0 + (IF m <= 2 THEN 1 ELSE 0),
     month |-> m,
     day   |-> doy - (153 * mp + 2) \div 5 + 1]

CivilOfMonthIndex(y0, doy, mp) ==
    CivilOfMonth(y0, doy, mp, IF mp < 10 THEN mp + 3 ELSE mp - 9)

CivilOfDayOfYear(y0, doy) == CivilOfMonthIndex(y0, doy, (5 * doy + 2) \div 153)

CivilOfYearOfEra(era, doe, yoe) ==
    CivilOfDayOfYear(yoe + era * 400, doe - (365 * yoe + yoe \div 4 - yoe \div 100))

CivilOfDayOfEra(era, doe) ==
    CivilOfYearOfEra(era, doe,
        (doe - doe \div 1460 + doe \div 36524 - doe \div 146096) \div 365)

CivilOfEra(zz, era) == CivilOfDayOfEra(era, zz - era * 146097)

\* the civil date of a day number
CivilFromDays(z) == CivilOfEra(z + 719468, (z + 719468) \div 146097)

\* 0 = Sunday ... 6 = Saturday
Weekday(days) == (days + 4) % 7

\* a NaiveDateTime as seconds since 1970-01-01 00:00:00 on its own clock
NaiveSeconds(n) ==
    DaysFromCivil(n.year, n.month, n.day) * 86400
        + n.hour * 3600 + n.minute * 60 + n.second

NaiveOf(c, rem) ==
    [year |-> c.year, month |-> c.month, day |-> c.day,
     hour |-> rem \div 3600, minute |-> (rem % 3600) \div 60, second |-> rem % 60]

\* the NaiveDateTime of a number of seconds
NaiveFromSeconds(s) == NaiveOf(CivilFromDays(s \div 86400), s % 86400)

\* faulty variant: chrono::Duration::hours(h) counted in minutes
DurationHoursMinutes(h) == h * 60

\* chrono::Duration::hours(h), in seconds
DurationHours(h) == h * 3600

(***************************************************************************)
(* Option<T> as a sequence of at most one element.                         *)
(***************************************************************************)
NoneOpt == <<>>
Some(v) == <<v>>
IsSome(o) == Len(o) = 1

(***************************************************************************)
(* crate::constants::TIMEZONE.  The constant is defined outside this file; *)
(* the tests of this file (lines 145-154) pin its offset to +01:00 in      *)
(* winter and the specification names Europe/Berlin.  The rules below are  *)
(* those of Europe/Berlin for the civil years 1950 onwards: CET all year   *)
(* until 1979, then summer time from 01:00 UTC on the last Sunday of March *)
(* (6 April in 1980) to 01:00 UTC on the last Sunday of September (of      *)
(* October from 1996).                                                     *)
(***************************************************************************)
TIMEZONE == "Europe/Berlin"

SundayOnOrBefore(day) == day - Weekday(day)

LastSunday(y, m) == SundayOnOrBefore(DaysFromCivil(y, m, DaysInMonth(y, m)))

SundayOnOrAfter(day) == day + ((7 - Weekday(day)) % 7)

DstStartUtc(y) ==
    (IF y = 1980 THEN SundayOnOrAfter(DaysFromCivil(y, 4, 1)) ELSE LastSunday(y, 3))
        * 86400 + 3600

DstEndUtc(y) ==
    (IF y < 1996 THEN LastSunday(y, 9) ELSE LastSunday(y, 10)) * 86400 + 3600

TzOffsetInYear(t, y) ==
    IF y >= 1980 /\ t >= DstStartUtc(y) /\ t < DstEndUtc(y) THEN 7200 ELSE 3600

\* TimeZone::offset_from_utc_datetime for TIMEZONE, in seconds east of UTC
TzOffsetAtUtc(t) == TzOffsetInYear(t, CivilFromDays(t \div 86400).year)

\* the offsets TIMEZONE uses in the modelled years
TzOffsets == {3600, 7200}

\* a DateTime<Tz>: the UTC instant, the offset in force at it, and the zone
MkDateTime(utc) == [utc |-> utc, offset |-> TzOffsetAtUtc(utc), tz |-> TIMEZONE]

SetMax(S) == CHOOSE o \in S : \A p \in S : p <= o

SetMin(S) == CHOOSE o \in S : \A p \in S : p >= o

\* the LocalResult of a civil time that the offsets `valid` map to an instant:
\* none (a gap), one (Single) or two (Ambiguous: earliest, latest)
LocalResultOf(local, valid) ==
    IF valid = {} THEN [kind |-> "None", values |-> <<>>]
    ELSE IF Cardinality(valid) = 1
         THEN [kind |-> "Single", values |-> <<MkDateTime(local - SetMax(valid))>>]
         ELSE [kind |-> "Ambiguous",
               values |-> << MkDateTime(local - SetMax(valid)),
                             MkDateTime(local - SetMin(valid)) >>]

LocalOffsets(local) == {o \in TzOffsets : TzOffsetAtUtc(local - o) = o}

OffsetFromLocal(local) == LocalResultOf(local, LocalOffsets(local))

\* NaiveDateTime::and_local_timezone(TIMEZONE)
AndLocalTimezone(naive) == OffsetFromLocal(NaiveSeconds(naive))

\* LocalResult::unwrap(): the value of a Single, a panic for None and Ambiguous
LocalResultUnwrap(lr) ==
    IF lr.kind = "Single"
    THEN [panic |-> FALSE, value |-> lr.values]
    ELSE [panic |-> TRUE, value |-> <<>>]

\* DateTime<Tz> + Duration: elapsed time added to the instant
DateTimeAdd(dt, seconds) == MkDateTime(dt.utc + seconds)

(***************************************************************************)
(* NaiveDateTime::parse_from_str(s, "%Y-%m-%d %H:%M"): the format's items  *)
(* are matched left to right.  A numeric item skips leading whitespace and *)
(* takes one to `width` digits (a year may carry a sign, and then takes    *)
(* all the digits that follow); a literal must match exactly; a space item *)
(* skips any whitespace, also none.  Input left over is an error.          *)
(***************************************************************************)
TIME_FORMAT ==
    << [kind |-> "Numeric", arg |-> "year"],
       [kind |-> "Literal", arg |-> "-"],
       [kind |-> "Numeric", arg |-> "month"],
       [kind |-> "Literal", arg |-> "-"],
       [kind |-> "Numeric", arg |-> "day"],
       [kind |-> "Space",   arg |-> " "],
       [kind |-> "Numeric", arg |-> "hour"],
       [kind |-> "Literal", arg |-> ":"],
       [kind |-> "Numeric", arg |-> "minute"] >>

Digits == <<"0", "1", "2", "3", "4", "5", "6", "7", "8", "9">>

CharAt(s, i) == SubSeq(s, i, i)

IsDigit(c) == \E i \in 1..10 : Digits[i] = c

DigitValue(c) == (CHOOSE i \in 1..10 : Digits[i] = c) - 1

IsWhitespace(c) == c \in {" ", "\t", "\n"}

StrFrom(s, i) == SubSeq(s, i, Len(s))

\* the number of leading whitespace characters
LeadingWhitespace(s) ==
    CHOOSE k \in 0..Len(s) :
        /\ \A i \in 1..k : IsWhitespace(CharAt(s, i))
        /\ (k = Len(s) \/ ~IsWhitespace(CharAt(s, k + 1)))

\* str::trim_start
TrimStart(s) == StrFrom(s, LeadingWhitespace(s) + 1)

RECURSIVE DecimalValue(_)
DecimalValue(s) ==
    IF s = "" THEN 0
    ELSE DecimalValue(SubSeq(s, 1, Len(s) - 1)) * 10 + DigitValue(CharAt(s, Len(s)))

\* the number of leading digits, at most lim
LeadingDigits(s, lim) ==
    CHOOSE k \in 0..lim :
        /\ \A i \in 1..k : IsDigit(CharAt(s, i))
        /\ (k = lim \/ ~IsDigit(CharAt(s, k + 1)))

Scanned(s, min, k) ==
    IF k < min
    THEN [ok |-> FALSE, value |-> 0, rest |-> s]
    ELSE [ok |-> TRUE, value |-> DecimalValue(SubSeq(s, 1, k)), rest |-> StrFrom(s, k + 1)]

\* format::scan::number(s, min, max): min to max leading digits
ScanNumber(s, min, max) ==
    Scanned(s, min, LeadingDigits(s, IF Len(s) < max THEN Len(s) ELSE max))

NumericWidth(field) == IF field = "year" THEN 4 ELSE 2

NumericSigned(field) == field = "year"

Negated(n) == [n EXCEPT !.value = 0 - n.value]

NumericOf(t, field) ==
    IF NumericSigned(field) /\ t # "" /\ CharAt(t, 1) = "-"
    THEN Negated(ScanNumber(StrFrom(t, 2), 1, Len(t)))
    ELSE IF NumericSigned(field) /\ t # "" /\ CharAt(t, 1) = "+"
    THEN ScanNumber(StrFrom(t, 2), 1, Len(t))
    ELSE ScanNumber(t, 1, NumericWidth(field))

\* one numeric item
ParseNumeric(s, field) == NumericOf(TrimStart(s), field)

NoFields == [year |-> 0, month |-> 0, day |-> 0, hour |-> 0, minute |-> 0]

\* format::parse over the items: the fields set, or a failure
RECURSIVE ParseItems(_, _, _)
RECURSIVE ParseAfterNumeric(_, _, _, _)
ParseAfterNumeric(n, field, items, parsed) ==
    IF n.ok
    THEN ParseItems(n.rest, items, [parsed EXCEPT ![field] = n.value])
    ELSE [ok |-> FALSE, fields |-> parsed]

ParseItems(s, items, parsed) ==
    IF items = <<>>
    THEN [ok |-> s = "", fields |-> parsed]
    ELSE IF Head(items).kind = "Numeric"
    THEN ParseAfterNumeric(ParseNumeric(s, Head(items).arg), Head(items).arg,
                           Tail(items), parsed)
    ELSE IF Head(items).kind = "Literal"
    THEN IF Len(s) >= Len(Head(items).arg)
            /\ SubSeq(s, 1, Len(Head(items).arg)) = Head(items).arg
         THEN ParseItems(StrFrom(s, Len(Head(items).arg) + 1), Tail(items), parsed)
         ELSE [ok |-> FALSE, fields |-> parsed]
    ELSE ParseItems(TrimStart(s), Tail(items), parsed)

\* Parsed::to_naive_datetime_with_offset: the fields must name a real date
\* and time of day; the second, which the format does not carry, is 0
FieldsValid(f) ==
    /\ f.month \in 1..12
    /\ f.day \in 1..DaysInMonth(f.year, f.month)
    /\ f.hour \in 0..23
    /\ f.minute \in 0..59

NoNaive == [year |-> 0, month |-> 0, day |-> 0, hour |-> 0, minute |-> 0, second |-> 0]

NaiveOfParsed(p) ==
    IF p.ok /\ FieldsValid(p.fields)
    THEN [ok |-> TRUE,
          value |-> [year |-> p.fields.year, month |-> p.fields.month,
                     day |-> p.fields.day, hour |-> p.fields.hour,
                     minute |-> p.fields.minute, second |-> 0]]
    ELSE [ok |-> FALSE, value |-> NoNaive]

\* NaiveDateTime::parse_from_str(s, TIME_FORMAT)
ParseFromStr(s) == NaiveOfParsed(ParseItems(s, TIME_FORMAT, NoFields))

(***************************************************************************)
(* parse_start_and_end_date (lines 120-136).  A Rust panic is an outcome   *)
(* of its own, beside Ok and Err.                                          *)
(***************************************************************************)
ParseOk(s, e)   == [kind |-> "Ok", dates |-> <<s, e>>, msg |-> ""]
ParseErr(m)     == [kind |-> "Err", dates |-> <<>>, msg |-> m]
ParsePanic(m)   == [kind |-> "Panic", dates |-> <<>>, msg |-> m]

Zoned(kind, value) == [kind |-> kind, value |-> value]

Unwrapped(u) == IF u.panic THEN Zoned("Panic", <<>>) ELSE Zoned("Ok", u.value)

\* .map(|date| date.and_local_timezone(TIMEZONE).unwrap()) (lines 127 and 132):
\* the closure runs on a parsed date only
MapUnwrap(p) ==
    IF p.ok THEN Unwrapped(LocalResultUnwrap(AndLocalTimezone(p.value)))
    ELSE Zoned("Err", <<>>)

\* lines 126-127 and 131-132: parse, zone and unwrap one string
ParseZoned(input) == MapUnwrap(ParseFromStr(input))

\* lines 129-134: `end_date`
EndDate(sd, end) ==
    IF end = NoneOpt
    THEN Zoned("Ok", <<DateTimeAdd(sd, DurationHours(1))>>)
    ELSE ParseZoned(end[1])

\* lines 133-135
WithEnd(sd, e) ==
    IF e.kind = "Err" THEN ParseErr("Couldn't parse end time")
    ELSE IF e.kind = "Panic" THEN ParsePanic("LocalResult::unwrap on no single local time")
    ELSE ParseOk(sd, e.value[1])

\* lines 128-135
WithStart(s, end) ==
    IF s.kind = "Err" THEN ParseErr("Couldn't parse start time")
    ELSE IF s.kind = "Panic" THEN ParsePanic("LocalResult::unwrap on no single local time")
    ELSE WithEnd(s.value[1], EndDate(s.value[1], end))

parse_start_and_end_date(start, end) == WithStart(ParseZoned(start), end)

(***************************************************************************)
(* Text helpers.                                                           *)
(***************************************************************************)
\* u64 / i32 Display
RECURSIVE DisplayInt(_)
DisplayInt(n) ==
    IF n < 10 THEN Digits[n + 1] ELSE DisplayInt(n \div 10) \o Digits[(n % 10) + 1]

\* a number zero-padded to at least `width` digits
RECURSIVE PadTo(_, _)
PadTo(t, width) == IF Len(t) >= width THEN t ELSE PadTo("0" \o t, width)

Pad(n, width) == PadTo(DisplayInt(n), width)

FormatNaive(n) ==
    Pad(n.year, 4) \o Pad(n.month, 2) \o Pad(n.day, 2) \o "T"
        \o Pad(n.hour, 2) \o Pad(n.minute, 2) \o Pad(n.second, 2) \o "Z"

\* DateTime<Utc>::format(ICS_TIME_FORMAT), ICS_TIME_FORMAT = "%Y%m%dT%H%M%SZ" (line 22)
FormatIcsTime(t) == FormatNaive(NaiveFromSeconds(t))

EVENT_URL == "https://discord.com/events/"

(***************************************************************************)
(* The command's surroundings: the guild, the invoking user, the inputs a  *)
(* user may type, the events other clients created, the values of          *)
(* Utc::now().                                                             *)
(***************************************************************************)
GuildId == 1

AuthorId == 42

\* Display of a User: its mention
AuthorMention == "<@" \o DisplayInt(AuthorId) \o ">"

Names == {"Meetup"}

Locations == {"Cafe"}

StartInputs ==
    { "1970-01-01 00:00",      \* test_parse_dates
      "2012-12-31 12:34",      \* test_parse_dates
      "2024-03-31 01:30",      \* half an hour before the spring-forward gap
      "2024-03-31 02:30",      \* inside the spring-forward gap
      "2024-10-27 02:30",      \* inside the fall-back overlap
      "2024-6-1 9:05",         \* fields not zero-padded
      "2023-02-29 00:00",      \* no such day
      "",                      \* test_reject_invalid_dates
      "not a date" }           \* test_reject_invalid_dates

EndInputs ==
    { "2013-01-01 21:43",      \* test_parse_dates
      "1970-01-01 00:00",      \* no later than any start
      "2024-03-31 02:30",      \* inside the spring-forward gap
      "",                      \* test_reject_invalid_dates
      "not a date" }           \* test_reject_invalid_dates

\* scheduled events created by other clients of the platform: an external
\* event with a location and no end, a voice event with a description, an end
\* and no metadata, and a stage event with an empty description and metadata
\* that names no location
ExternalPub ==
    [id |-> 7, guild_id |-> GuildId, name |-> "X", description |-> NoneOpt,
     metadata |-> Some([location |-> Some("Pub")]),
     start_time |-> 1717236000, end_time |-> NoneOpt]

ExternalVoice ==
    [id |-> 8, guild_id |-> GuildId, name |-> "Voice chat",
     description |-> Some("Weekly"), metadata |-> NoneOpt,
     start_time |-> 1717236000, end_time |-> Some(1717243200)]

ExternalStage ==
    [id |-> 9, guild_id |-> GuildId, name |-> "Stage", description |-> Some(""),
     metadata |-> Some([location |-> NoneOpt]),
     start_time |-> 1717239600, end_time |-> NoneOpt]

\* what the listing holds before the first command: nothing, one event, two
\* events, the same event twice (the listing's type does not exclude it)
PreexistingStores ==
    { <<>>,
      <<ExternalStage>>,
      <<ExternalVoice, ExternalPub>>,
      <<ExternalPub, ExternalPub>> }

\* Utc::now() at export time
Nows == {1730430000, 1730430001}

\* the largest id in use, 0 when there is none
MaxId(store) == SetMax({0} \cup {store[i].id : i \in 1..Len(store)})

(***************************************************************************)
(* Outcomes and platform calls.                                            *)
(***************************************************************************)
NoResult == [kind |-> "None", step |-> "", msg |-> ""]
Ok       == [kind |-> "Ok", step |-> "", msg |-> ""]
Err(step, m)   == [kind |-> "Err", step |-> step, msg |-> m]
Panic(step, m) == [kind |-> "Panic", step |-> step, msg |-> m]

\* one awaited platform call: the operation, whether it succeeded, its arguments
Call(op, ok, text, dates) == [op |-> op, ok |-> ok, text |-> text, dates |-> dates]

NoArgs == [cmd |-> "", name |-> "", location |-> "", start |-> "", end |-> NoneOpt]

Init ==
    /\ pc = "idle"
    /\ args = NoArgs
    /\ start_date = NoneOpt
    /\ end_date = NoneOpt
    /\ event = NoneOpt
    /\ announcement = ""
    /\ msg = NoneOpt
    /\ thread = NoneOpt
    /\ calls = <<>>
    /\ result = NoResult
    /\ scheduled \in PreexistingStores
    /\ config \in {NoneOpt, Some("announcements")}
    /\ events = <<>>
    /\ cursor = 0
    /\ calendar = <<>>
    /\ attachment = <<>>
    /\ invocations = 0

\* the locals of a fresh invocation
Fresh ==
    /\ start_date' = NoneOpt
    /\ end_date' = NoneOpt
    /\ event' = NoneOpt
    /\ announcement' = ""
    /\ msg' = NoneOpt
    /\ thread' = NoneOpt
    /\ calls' = <<>>
    /\ result' = NoResult
    /\ events' = <<>>
    /\ cursor' = 0
    /\ calendar' = <<>>
    /\ attachment' = <<>>

\* the `?` of a failed step: the command returns that step's error
Fail(step, m) ==
    /\ result' = Err(step, m)
    /\ pc' = "idle"


(***************************************************************************)
(* The `event` command (lines 77-118), one action per awaited step.        *)
(***************************************************************************)
evLocals == <<start_date, end_date, event, announcement, msg, thread>>
exLocals == <<events, cursor, calendar, attachment>>

\* the emoji of lines 110 and 111: U+1F44D and U+2754
ThumbsUp == "thumbs-up"
QuestionMark == "question-mark"

InvokeEvent ==
    /\ pc = "idle"
    /\ invocations < MaxInvocations
    /\ \E name \in Names, location \in Locations, start \in StartInputs,
          end \in {NoneOpt} \cup {Some(e) : e \in EndInputs} :
          args' = [cmd |-> "event", name |-> name, location |-> location,
                   start |-> start, end |-> end]
    /\ Fresh
    /\ pc' = "ev_defer"
    /\ invocations' = invocations + 1
    /\ UNCHANGED <<scheduled, config>>

\* line 84: ctx.defer().await?
EvDefer ==
    /\ pc = "ev_defer"
    /\ \/ /\ calls' = Append(calls, Call("defer", TRUE, "", <<>>))
          /\ pc' = "ev_parse"
          /\ UNCHANGED result
       \/ /\ calls' = Append(calls, Call("defer", FALSE, "", <<>>))
          /\ Fail("defer", "platform")
    /\ UNCHANGED <<args, evLocals, exLocals, scheduled, config, invocations>>

\* line 85: what the command does with the Result r (or the panic)
EvParseOutcome(r) ==
    /\ \/ /\ r.kind = "Ok"
          /\ start_date' = Some(r.dates[1])
          /\ end_date' = Some(r.dates[2])
          /\ pc' = "ev_create"
          /\ UNCHANGED result
       \/ /\ r.kind = "Err"
          /\ Fail("parse", r.msg)
          /\ UNCHANGED <<start_date, end_date>>
       \/ /\ r.kind = "Panic"
          /\ result' = Panic("parse", r.msg)
          /\ pc' = "idle"
          /\ UNCHANGED <<start_date, end_date>>

\* line 85: parse_start_and_end_date(start, end)?
EvParse ==
    /\ pc = "ev_parse"
    /\ EvParseOutcome(parse_start_and_end_date(args.start, args.end))
    /\ UNCHANGED <<args, event, announcement, msg, thread, calls, exLocals,
                   scheduled, config, invocations>>

\* the ScheduledEvent the platform stores for the builder of lines 90-92: an
\* external event with the name, the location and the two instants
ScheduledEventOf(id, name, location, start, end) ==
    [id |-> id, guild_id |-> GuildId, name |-> name, description |-> NoneOpt,
     metadata |-> Some([location |-> Some(location)]),
     start_time |-> start.utc, end_time |-> Some(end.utc)]

\* lines 87-94: guild_id.create_scheduled_event(...).await?
EvCreate ==
    /\ pc = "ev_create"
    /\ \/ /\ calls' = Append(calls, Call("create_scheduled_event", TRUE, args.name,
                                         <<start_date[1], end_date[1]>>))
          /\ event' = Some(ScheduledEventOf(MaxId(scheduled) + 1, args.name,
                                            args.location, start_date[1], end_date[1]))
          /\ scheduled' = Append(scheduled, event'[1])
          /\ pc' = "ev_lookup"
          /\ UNCHANGED result
       \/ /\ calls' = Append(calls, Call("create_scheduled_event", FALSE, args.name,
                                         <<start_date[1], end_date[1]>>))
          /\ Fail("create_scheduled_event", "platform")
          /\ UNCHANGED <<scheduled, event>>
    /\ UNCHANGED <<args, start_date, end_date, announcement, msg, thread, exLocals,
                   config, invocations>>

\* lines 95-102: the announcement text
Announcement(name, e) ==
    "[" \o name \o "](" \o EVENT_URL \o DisplayInt(e.guild_id) \o "/"
        \o DisplayInt(e.id) \o ") mit " \o AuthorMention

\* faulty variant of lines 95-107: a missing channel also deletes the event
EvLookupRollback ==
    /\ pc = "ev_lookup"
    /\ announcement' = Announcement(args.name, event[1])
    /\ \/ /\ config # NoneOpt
          /\ pc' = "ev_say"
          /\ UNCHANGED <<result, scheduled>>
       \/ /\ config = NoneOpt
          /\ Fail("lookup", "No announcement channel configured for guild "
                                \o DisplayInt(GuildId))
          /\ scheduled' = SelectSeq(scheduled, LAMBDA e : e.id # event[1].id)
    /\ UNCHANGED <<args, start_date, end_date, event, msg, thread, calls, exLocals,
                   config, invocations>>

\* lines 95-107: format the announcement, look the channel up in the configuration
EvLookup ==
    /\ pc = "ev_lookup"
    /\ announcement' = Announcement(args.name, event[1])
    /\ \/ /\ config # NoneOpt
          /\ pc' = "ev_say"
          /\ UNCHANGED result
       \/ /\ config = NoneOpt
          /\ Fail("lookup", "No announcement channel configured for guild "
                                \o DisplayInt(GuildId))
    /\ UNCHANGED <<args, start_date, end_date, event, msg, thread, calls, exLocals,
                   scheduled, config, invocations>>

\* faulty variant of line 109: the `?` is missing
EvSayUnchecked ==
    /\ pc = "ev_say"
    /\ \/ /\ calls' = Append(calls, Call("say", TRUE, announcement, <<>>))
          /\ msg' = Some([channel |-> config[1], content |-> announcement])
       \/ /\ calls' = Append(calls, Call("say", FALSE, announcement, <<>>))
          /\ msg' = Some([channel |-> config[1], content |-> ""])
    /\ pc' = "ev_react_thumbs"
    /\ UNCHANGED <<args, start_date, end_date, event, announcement, thread, result,
                   exLocals, scheduled, config, invocations>>

\* line 109: announcement_channel.say(...).await?
EvSay ==
    /\ pc = "ev_say"
    /\ \/ /\ calls' = Append(calls, Call("say", TRUE, announcement, <<>>))
          /\ msg' = Some([channel |-> config[1], content |-> announcement])
          /\ pc' = "ev_react_thumbs"
          /\ UNCHANGED result
       \/ /\ calls' = Append(calls, Call("say", FALSE, announcement, <<>>))
          /\ Fail("say", "platform")
          /\ UNCHANGED msg
    /\ UNCHANGED <<args, start_date, end_date, event, announcement, thread,
                   exLocals, scheduled, config, invocations>>

\* faulty variant of line 110: the emoji of line 111
EvReactThumbsSwapped ==
    /\ pc = "ev_react_thumbs"
    /\ \/ /\ calls' = Append(calls, Call("react", TRUE, QuestionMark, <<>>))
          /\ pc' = "ev_react_question"
          /\ UNCHANGED result
       \/ /\ calls' = Append(calls, Call("react", FALSE, QuestionMark, <<>>))
          /\ Fail("react " \o QuestionMark, "platform")
    /\ UNCHANGED <<args, evLocals, exLocals, scheduled, config, invocations>>

\* line 110: msg.react(thumbs-up).await?
EvReactThumbs ==
    /\ pc = "ev_react_thumbs"
    /\ \/ /\ calls' = Append(calls, Call("react", TRUE, ThumbsUp, <<>>))
          /\ pc' = "ev_react_question"
          /\ UNCHANGED result
       \/ /\ calls' = Append(calls, Call("react", FALSE, ThumbsUp, <<>>))
          /\ Fail("react " \o ThumbsUp, "platform")
    /\ UNCHANGED <<args, evLocals, exLocals, scheduled, config, invocations>>

\* line 111: msg.react(question-mark).await?
EvReactQuestion ==
    /\ pc = "ev_react_question"
    /\ \/ /\ calls' = Append(calls, Call("react", TRUE, QuestionMark, <<>>))
          /\ pc' = "ev_thread"
          /\ UNCHANGED result
       \/ /\ calls' = Append(calls, Call("react", FALSE, QuestionMark, <<>>))
          /\ Fail("react " \o QuestionMark, "platform")
    /\ UNCHANGED <<args, evLocals, exLocals, scheduled, config, invocations>>

\* lines 113-115: announcement_channel.create_thread_from_message(...).await?
EvThread ==
    /\ pc = "ev_thread"
    /\ \/ /\ calls' = Append(calls, Call("create_thread_from_message", TRUE, args.name, <<>>))
          /\ thread' = Some([name |-> args.name, message |-> msg[1]])
          /\ pc' = "ev_member"
          /\ UNCHANGED result
       \/ /\ calls' = Append(calls, Call("create_thread_from_message", FALSE, args.name, <<>>))
          /\ Fail("create_thread_from_message", "platform")
          /\ UNCHANGED thread
    /\ UNCHANGED <<args, start_date, end_date, event, announcement, msg, exLocals,
                   scheduled, config, invocations>>

\* line 116: thread.id.add_thread_member(ctx, ctx.author().id).await?
EvMember ==
    /\ pc = "ev_member"
    /\ \/ /\ calls' = Append(calls, Call("add_thread_member", TRUE, AuthorMention, <<>>))
          /\ pc' = "ev_done"
          /\ UNCHANGED result
       \/ /\ calls' = Append(calls, Call("add_thread_member", FALSE, AuthorMention, <<>>))
          /\ Fail("add_thread_member", "platform")
    /\ UNCHANGED <<args, evLocals, exLocals, scheduled, config, invocations>>

\* line 117: done!(ctx), the command's successful return
EvDone ==
    /\ pc = "ev_done"
    /\ result' = Ok
    /\ pc' = "idle"
    /\ UNCHANGED <<args, evLocals, exLocals, calls, scheduled, config, invocations>>


(***************************************************************************)
(* The `export_events` command (lines 21-67).  A calendar entry is the     *)
(* sequence of its properties, in the order they were pushed.              *)
(***************************************************************************)
Property(key, value) == [key |-> key, value |-> value]

\* line 52: end_time.unwrap_or(start_time + 1 hour)
DtEndOf(e) ==
    IF IsSome(e.end_time) THEN e.end_time[1] ELSE e.start_time + DurationHours(1)

\* faulty variant of lines 32-55: description.unwrap_or_default()
IcsEventAlwaysDescribed(e, now) ==
    << Property("UID", DisplayInt(e.id)),
       Property("DTSTAMP", FormatIcsTime(now)),
       Property("SUMMARY", e.name),
       Property("DESCRIPTION", IF IsSome(e.description) THEN e.description[1] ELSE "") >>
    \o (IF IsSome(e.metadata) /\ IsSome(e.metadata[1].location)
        THEN <<Property("LOCATION", e.metadata[1].location[1])>> ELSE <<>>)
    \o << Property("DTSTART", FormatIcsTime(e.start_time)),
          Property("DTEND", FormatIcsTime(DtEndOf(e))) >>

\* lines 32-55: the entry of one scheduled event; Event::new pushes UID and DTSTAMP
IcsEvent(e, now) ==
    << Property("UID", DisplayInt(e.id)),
       Property("DTSTAMP", FormatIcsTime(now)),
       Property("SUMMARY", e.name) >>
    \o (IF IsSome(e.description)
        THEN <<Property("DESCRIPTION", e.description[1])>> ELSE <<>>)
    \o (IF IsSome(e.metadata) /\ IsSome(e.metadata[1].location)
        THEN <<Property("LOCATION", e.metadata[1].location[1])>> ELSE <<>>)
    \o << Property("DTSTART", FormatIcsTime(e.start_time)),
          Property("DTEND", FormatIcsTime(DtEndOf(e))) >>

RECURSIVE PropertyLines(_)
PropertyLines(entry) ==
    IF entry = <<>> THEN <<>>
    ELSE <<Head(entry).key \o ":" \o Head(entry).value>> \o PropertyLines(Tail(entry))

RECURSIVE EntryLines(_)
EntryLines(cal) ==
    IF cal = <<>> THEN <<>>
    ELSE <<"BEGIN:VEVENT">> \o PropertyLines(Head(cal)) \o <<"END:VEVENT">>
             \o EntryLines(Tail(cal))

\* lines 30 and 60: ICalendar::new("2.0", "ics-rs") written out, line by line
CalendarLines(cal) ==
    <<"BEGIN:VCALENDAR", "VERSION:2.0", "PRODID:ics-rs">> \o EntryLines(cal)
        \o <<"END:VCALENDAR">>

InvokeExport ==
    /\ pc = "idle"
    /\ invocations < MaxInvocations
    /\ args' = [NoArgs EXCEPT !.cmd = "export_events"]
    /\ Fresh
    /\ pc' = "ex_defer"
    /\ invocations' = invocations + 1
    /\ UNCHANGED <<scheduled, config>>

\* line 24: ctx.defer().await?
ExDefer ==
    /\ pc = "ex_defer"
    /\ \/ /\ calls' = Append(calls, Call("defer", TRUE, "", <<>>))
          /\ pc' = "ex_list"
          /\ UNCHANGED result
       \/ /\ calls' = Append(calls, Call("defer", FALSE, "", <<>>))
          /\ Fail("defer", "platform")
    /\ UNCHANGED <<args, evLocals, exLocals, scheduled, config, invocations>>

\* lines 25-29: guild_id.scheduled_events(ctx.http(), false).await?
ExList ==
    /\ pc = "ex_list"
    /\ \/ /\ calls' = Append(calls, Call("scheduled_events", TRUE, "", <<>>))
          /\ events' = scheduled
          /\ pc' = "ex_loop"
          /\ UNCHANGED result
       \/ /\ calls' = Append(calls, Call("scheduled_events", FALSE, "", <<>>))
          /\ Fail("scheduled_events", "platform")
          /\ UNCHANGED events
    /\ UNCHANGED <<args, evLocals, cursor, calendar, attachment, scheduled, config,
                   invocations>>

\* faulty variant of lines 31-58: an id the calendar already holds is skipped
ExLoopDedup ==
    /\ pc = "ex_loop"
    /\ cursor < Len(events)
    /\ \E now \in Nows :
          LET e == events[cursor + 1] IN
          calendar' = IF \E i \in 1..Len(calendar) : calendar[i][1].value = DisplayInt(e.id)
                      THEN calendar
                      ELSE Append(calendar, IcsEvent(e, now))
    /\ cursor' = cursor + 1
    /\ UNCHANGED <<args, evLocals, events, attachment, calls, result, pc, scheduled,
                   config, invocations>>

\* lines 31-58: one iteration of the loop over `events`
ExLoop ==
    /\ pc = "ex_loop"
    /\ cursor < Len(events)
    /\ \E now \in Nows :
          calendar' = Append(calendar, IcsEvent(events[cursor + 1], now))
    /\ cursor' = cursor + 1
    /\ UNCHANGED <<args, evLocals, events, attachment, calls, result, pc, scheduled,
                   config, invocations>>

\* lines 59-60: calendar.write(&mut bytes)?, after the loop; writing to a Vec
\* does not fail
ExWrite ==
    /\ pc = "ex_loop"
    /\ cursor = Len(events)
    /\ attachment' = CalendarLines(calendar)
    /\ pc' = "ex_send"
    /\ UNCHANGED <<args, evLocals, events, cursor, calendar, calls, result, scheduled,
                   config, invocations>>

\* lines 61-65: ctx.send(... "calendar.ics" ...).await?
ExSend ==
    /\ pc = "ex_send"
    /\ \/ /\ calls' = Append(calls, Call("send", TRUE, "calendar.ics", <<>>))
          /\ pc' = "ex_done"
          /\ UNCHANGED result
       \/ /\ calls' = Append(calls, Call("send", FALSE, "calendar.ics", <<>>))
          /\ Fail("send", "platform")
    /\ UNCHANGED <<args, evLocals, exLocals, scheduled, config, invocations>>

\* line 66: done!(ctx), the command's successful return
ExDone ==
    /\ pc = "ex_done"
    /\ result' = Ok
    /\ pc' = "idle"
    /\ UNCHANGED <<args, evLocals, exLocals, calls, scheduled, config, invocations>>

Next ==
    \/ InvokeEvent
    \/ EvDefer
    \/ EvParse
    \/ EvCreate
    \/ EvLookup
    \/ EvSay
    \/ EvReactThumbs
    \/ EvReactQuestion
    \/ EvThread
    \/ EvMember
    \/ EvDone
    \/ InvokeExport
    \/ ExDefer
    \/ ExList
    \/ ExLoop
    \/ ExWrite
    \/ ExSend
    \/ ExDone

Spec == Init /\ [][Next]_vars


(***************************************************************************)
(* Vocabulary of the properties.                                           *)
(***************************************************************************)
\* the civil (wall-clock) reading of a DateTime<Tz>
NaiveLocal(dt) == NaiveFromSeconds(dt.utc + dt.offset)

\* the running (or last) command is `event` and line 85 has been executed
ParseRan ==
    /\ args.cmd = "event"
    /\ pc \notin {"ev_defer", "ev_parse"}
    /\ calls # <<>>
    /\ calls[1].ok

\* the input grammar YYYY-MM-DD HH:MM: zero-padded fields, one space, no more
MatchesGrammar(s) ==
    /\ Len(s) = 16
    /\ \A i \in {1, 2, 3, 4, 6, 7, 9, 10, 12, 13, 15, 16} : IsDigit(CharAt(s, i))
    /\ CharAt(s, 5) = "-"
    /\ CharAt(s, 8) = "-"
    /\ CharAt(s, 11) = " "
    /\ CharAt(s, 14) = ":"

\* a well-formed string whose civil time is skipped (a gap) or repeated (an
\* overlap) in TIMEZONE
LocalKind(s) ==
    IF MatchesGrammar(s) /\ ParseFromStr(s).ok
    THEN AndLocalTimezone(ParseFromStr(s).value).kind
    ELSE "Malformed"

\* the platform calls of the `event` command, in the order of the text
EventCallOrder ==
    << "defer", "create_scheduled_event", "say", "react thumbs-up",
       "react question-mark", "create_thread_from_message", "add_thread_member" >>

CallName(c) == IF c.op = "react" THEN "react " \o c.text ELSE c.op

\* the steps of the `event` command, in the order of the text
EventStepOrder ==
    << "defer", "parse", "create_scheduled_event", "lookup", "say", "react thumbs-up",
       "react question-mark", "create_thread_from_message", "add_thread_member" >>

StepIndex(step) == CHOOSE i \in 1..Len(EventStepOrder) : EventStepOrder[i] = step

IsPlatformStep(step) == \E i \in 1..Len(EventCallOrder) : EventCallOrder[i] = step

\* the platform steps that come before step number k
CallsBefore(k) ==
    SelectSeq(SubSeq(EventStepOrder, 1, k - 1), IsPlatformStep)

Count(entry, key) == Cardinality({j \in 1..Len(entry) : entry[j].key = key})

ValueOf(entry, key) == entry[CHOOSE j \in 1..Len(entry) : entry[j].key = key].value

\* the instant a YYYYMMDDTHHMMSSZ text names
IcsInstant(t) ==
    NaiveSeconds([year   |-> DecimalValue(SubSeq(t, 1, 4)),
                  month  |-> DecimalValue(SubSeq(t, 5, 6)),
                  day    |-> DecimalValue(SubSeq(t, 7, 8)),
                  hour   |-> DecimalValue(SubSeq(t, 10, 11)),
                  minute |-> DecimalValue(SubSeq(t, 12, 13)),
                  second |-> DecimalValue(SubSeq(t, 14, 15))])

HasPrefix(line, prefix) ==
    Len(line) >= Len(prefix) /\ SubSeq(line, 1, Len(prefix)) = prefix

IsBeginEvent(line) == line = "BEGIN:VEVENT"

IsUidLine(line) == HasPrefix(line, "UID:")

\* export_events has written the calendar out
CalendarWritten == args.cmd = "export_events" /\ attachment # <<>>

LocationPresent(e) == IsSome(e.metadata) /\ IsSome(e.metadata[1].location)

(***************************************************************************)
(* C1.  Whenever parse_start_and_end_date(s, None) succeeds, the end it    *)
(* returns is exactly one hour (3600 s) of elapsed time after the start,   *)
(* and both carry the configured zone, each with the offset the zone has   *)
(* at its instant.                                                         *)
(***************************************************************************)
C1_DefaultEndIsOneHourLater ==
    (ParseRan /\ args.end = NoneOpt /\ IsSome(start_date)) =>
        /\ IsSome(end_date)
        /\ end_date[1].utc - start_date[1].utc = 60 * 60
        /\ start_date[1].tz = TIMEZONE
        /\ end_date[1].tz = TIMEZONE
        /\ start_date[1].offset = TzOffsetAtUtc(start_date[1].utc)
        /\ end_date[1].offset = TzOffsetAtUtc(end_date[1].utc)
        /\ NaiveLocal(start_date[1]) = ParseFromStr(args.start).value

\* a default end across the spring-forward change: the start is on winter
\* time, the end on summer time
C1_Witness ==
    /\ ParseRan
    /\ args.end = NoneOpt
    /\ IsSome(start_date)
    /\ IsSome(end_date)
    /\ start_date[1].offset = 3600
    /\ end_date[1].offset = 7200

(***************************************************************************)
(* C2.  parse_start_and_end_date returns an error (never a success, never  *)
(* a crash) whenever the start string does not match YYYY-MM-DD HH:MM, and *)
(* whenever the start string matches but an end string is present and does *)
(* not match; the empty string does not match.                             *)
(***************************************************************************)
C2_MalformedInputIsAnError ==
    (/\ ParseRan
     /\ \/ ~MatchesGrammar(args.start)
        \/ /\ MatchesGrammar(args.start)
           /\ IsSome(args.end)
           /\ ~MatchesGrammar(args.end[1]))
        => (result.kind = "Err" /\ result.step = "parse")

(***************************************************************************)
(* C3.  A well-formed start or end string whose civil time does not exist  *)
(* in the zone makes parse_start_and_end_date return an error; one whose   *)
(* civil time is ambiguous is resolved to the earlier of its two instants; *)
(* in neither case does the call terminate abnormally.                     *)
(***************************************************************************)
C3_GapIsAnErrorOverlapIsEarliest ==
    ParseRan =>
        /\ result.kind # "Panic"
        /\ LocalKind(args.start) = "None"
               => (result.kind = "Err" /\ result.step = "parse")
        /\ (/\ LocalKind(args.start) = "Single"
            /\ IsSome(args.end)
            /\ LocalKind(args.end[1]) = "None")
               => (result.kind = "Err" /\ result.step = "parse")
        /\ (LocalKind(args.start) = "Ambiguous" /\ args.end = NoneOpt)
               => /\ IsSome(start_date)
                  /\ start_date[1] =
                         AndLocalTimezone(ParseFromStr(args.start).value).values[1]

(***************************************************************************)
(* C4.  Within one invocation of `event` the platform calls happen in the  *)
(* order defer, create scheduled event, announcement, thumbs-up reaction,  *)
(* question-mark reaction, thread creation, thread-member add, and each    *)
(* starts only after the one before it has succeeded.                      *)
(***************************************************************************)
C4_CallsInOrder ==
    args.cmd = "event" =>
        /\ Len(calls) <= Len(EventCallOrder)
        /\ \A i \in 1..Len(calls) : CallName(calls[i]) = EventCallOrder[i]
        /\ \A i \in 1..(Len(calls) - 1) : calls[i].ok

\* all seven calls were made and succeeded
C4_Witness ==
    /\ args.cmd = "event"
    /\ Len(calls) = Len(EventCallOrder)
    /\ \A i \in 1..Len(calls) : calls[i].ok
    /\ result.kind = "Ok"

(***************************************************************************)
(* C5.  If a step of `event` fails, the command ends with that step's      *)
(* error and no later step has been executed: the calls made are exactly   *)
(* the platform steps before it, all successful, and the failed call       *)
(* itself; a date-parse failure leaves no scheduled event and no message.  *)
(***************************************************************************)
C5_FailureStopsTheCommand ==
    args.cmd = "event" =>
        /\ \A i \in 1..Len(calls) :
               ~calls[i].ok =>
                   /\ i = Len(calls)
                   /\ result.kind = "Err"
                   /\ result.step = CallName(calls[i])
        /\ result.kind \in {"Err", "Panic"} =>
               /\ pc = "idle"
               /\ LET k == StepIndex(result.step)
                      before == CallsBefore(k)
                  IN  /\ Len(calls) = Len(before) + (IF IsPlatformStep(result.step) THEN 1 ELSE 0)
                      /\ \A i \in 1..Len(before) :
                             CallName(calls[i]) = before[i] /\ calls[i].ok
                      /\ IsPlatformStep(result.step) =>
                             /\ CallName(calls[Len(calls)]) = result.step
                             /\ ~calls[Len(calls)].ok
                      /\ k <= StepIndex("create_scheduled_event") => event = NoneOpt
                      /\ k <= StepIndex("say") => msg = NoneOpt
                      /\ k <= StepIndex("create_thread_from_message") => thread = NoneOpt

\* the question-mark reaction failed: the command ended there
C5_Witness ==
    /\ args.cmd = "event"
    /\ result.kind = "Err"
    /\ result.step = "react question-mark"
    /\ Len(calls) = 5
    /\ thread = NoneOpt

(***************************************************************************)
(* C6.  Once `event` has created the scheduled event, the event stays on   *)
(* the platform whatever happens later in the command: the command makes   *)
(* no delete or other compensating call, also when the announcement        *)
(* channel turns out not to be configured.                                 *)
(***************************************************************************)
C6_CreatedEventStays ==
    (args.cmd = "event" /\ IsSome(event)) =>
        /\ \E i \in 1..Len(scheduled) : scheduled[i] = event[1]
        /\ \A i \in 1..Len(calls) : CallName(calls[i]) = EventCallOrder[i]

\* event exists, no announcement, no thread: the channel is not configured
C6_Witness ==
    /\ args.cmd = "event"
    /\ result.kind = "Err"
    /\ result.step = "lookup"
    /\ IsSome(event)
    /\ \E i \in 1..Len(scheduled) : scheduled[i] = event[1]
    /\ msg = NoneOpt
    /\ thread = NoneOpt

(***************************************************************************)
(* C7.  The calendar export_events builds holds exactly one entry per      *)
(* listed event, in the order of the listing, also when two listed events  *)
(* share an id; an empty listing gives a calendar without entries.         *)
(***************************************************************************)
C7_OneEntryPerEventInOrder ==
    /\ (args.cmd = "export_events" /\ pc = "ex_loop") => Len(calendar) = cursor
    /\ CalendarWritten =>
        /\ Len(calendar) = Len(events)
        /\ Len(SelectSeq(attachment, IsBeginEvent)) = Len(events)
        /\ LET uids == SelectSeq(attachment, IsUidLine) IN
           /\ Len(uids) = Len(events)
           /\ \A i \in 1..Len(events) :
                  DecimalValue(StrFrom(uids[i], 5)) = events[i].id

\* two listed events with the same id, and a third event after them
C7_Witness ==
    /\ CalendarWritten
    /\ Len(events) = 3
    /\ events[1].id = events[2].id
    /\ events[3].id # events[1].id

(***************************************************************************)
(* C8.  Every entry of the calendar has one UID, the event's id as text,   *)
(* one DTSTAMP, one SUMMARY, the event's name, one DTSTART and one DTEND;  *)
(* it has a DESCRIPTION exactly if the event has a description and a       *)
(* LOCATION exactly if the event has a location.                           *)
(***************************************************************************)
C8_EntryProperties ==
    (args.cmd = "export_events" /\ Len(calendar) <= Len(events)) =>
        \A i \in 1..Len(calendar) :
            /\ Count(calendar[i], "UID") = 1
            /\ DecimalValue(ValueOf(calendar[i], "UID")) = events[i].id
            /\ Count(calendar[i], "DTSTAMP") = 1
            /\ Count(calendar[i], "SUMMARY") = 1
            /\ ValueOf(calendar[i], "SUMMARY") = events[i].name
            /\ Count(calendar[i], "DTSTART") = 1
            /\ IcsInstant(ValueOf(calendar[i], "DTSTART")) = events[i].start_time
            /\ Count(calendar[i], "DTEND") = 1
            /\ Count(calendar[i], "DESCRIPTION")
                   = (IF IsSome(events[i].description) THEN 1 ELSE 0)
            /\ Count(calendar[i], "LOCATION")
                   = (IF LocationPresent(events[i]) THEN 1 ELSE 0)

\* an entry of an event without description and with a location, and an
\* entry of an event with a description and without location
C8_Witness ==
    /\ CalendarWritten
    /\ \E i \in 1..Len(calendar) :
           /\ events[i].description = NoneOpt
           /\ LocationPresent(events[i])
           /\ Count(calendar[i], "LOCATION") = 1
    /\ \E i \in 1..Len(calendar) :
           /\ IsSome(events[i].description)
           /\ ~LocationPresent(events[i])
           /\ Count(calendar[i], "DESCRIPTION") = 1

(***************************************************************************)
(* C9.  For every calendar entry export_events emits, DTEND is not before  *)
(* DTSTART, DTEND being the event's end_time, or start_time + 1 hour when  *)
(* the event has none.                                                     *)
(***************************************************************************)
C9_EndNotBeforeStart ==
    args.cmd = "export_events" =>
        \A i \in 1..Len(calendar) :
            IcsInstant(ValueOf(calendar[i], "DTEND"))
                >= IcsInstant(ValueOf(calendar[i], "DTSTART"))

(***************************************************************************)
(* C10.  Every (start, end) pair `event` passes to the platform's          *)
(* create-scheduled-event call has its end after its start.                *)
(***************************************************************************)
C10_CreatedEndAfterStart ==
    args.cmd = "event" =>
        \A i \in 1..Len(calls) :
            calls[i].op = "create_scheduled_event" =>
                calls[i].dates[2].utc > calls[i].dates[1].utc


====
